---- MODULE Spec2Model ----
(***************************************************************************)
(* Model of scripts/sync_to_gist.py: the pipeline                          *)
(*   get_env -> token check -> parse_tasks_from_file -> classify_tasks     *)
(*   -> json.dumps -> ensure_gist -> print.                                *)
(*                                                                         *)
(* Text.  A Python str is modelled as a tuple of symbols.  A symbol is one *)
(* character (" ", "=", "#", "-", "[", "0".."9", ...) or one atom standing *)
(* for a run of ordinary characters that the code never looks inside       *)
(* ("GITHUB_GIST_TOKEN", "tok", "Linked", ...).  Two literals of the       *)
(* source that are not ASCII are written as atoms: CAL is the calendar     *)
(* icon of TASK_PATTERN (line 54) and FUKUSHU is the two-character review  *)
(* word that the note heuristic strips (line 74).  The empty str is <<>>.  *)
(***************************************************************************)
EXTENDS Integers, Sequences, FiniteSets, TLC

VARIABLES
    pc,            \* position of main(): the statement it executes next
    settings,      \* the .env file at ENV_PATH: NoFile or its lines
    os_environ,    \* the process environment (dict)
    notes,         \* the review file on disk: NoFile or its lines
    env,           \* main: env = get_env()
    github_token,  \* main: env.get("GITHUB_GIST_TOKEN")
    gist_id,       \* main: env.get("REVIEW_GIST_ID") or None
    review_file,   \* main: Path(vault_path) / review_file_rel
    tasks,         \* main: parse_tasks_from_file(review_file)
    clock,         \* the date datetime.now(JST).date() returned
    buckets,       \* classify_tasks: the local dict result (with "others")
    classified,    \* main: classify_tasks(tasks)
    json_content,  \* main: json.dumps(classified, ...)
    calls,         \* the HTTP requests issued so far, in order
    response,      \* the answer to the last request
    new_gist_id,   \* main: ensure_gist(...)
    stdout,        \* what print() wrote
    err,           \* the exception that ended the run (NoError while running)
    io             \* the files read and requests sent so far, in order

vars == <<pc, settings, os_environ, notes, env, github_token, gist_id,
          review_file, tasks, clock, buckets, classified, json_content,
          calls, response, new_gist_id, stdout, err, io>>

\* Python's None where a str may stand: a tuple that is no text
None == <<"<None>">>

\* a local of main that is not assigned yet
Unset == "unset"

\* no exception was raised
NoError == "NoError"

\* a path on disk: exists() and, if so, read_text().splitlines()
NoFile == [exists |-> FALSE, lines |-> <<>>]

File(lines) == [exists |-> TRUE, lines |-> lines]

(***************************************************************************)
(* Bounds of the input sets.                                               *)
(***************************************************************************)
\* lines of a settings file in a whole run
MaxMainEnvLines == 2

\* lines of a review file in a whole run
MaxMainNoteLines == 2

\* symbols of a generated settings line (get_env on its own)
MaxEnvLineLen == 4

\* lines of a settings file built from the line pool (get_env on its own)
MaxEnvLines == 2

\* symbols of a generated task body (parse_tasks_from_file on its own)
MaxBodyLen == 3

\* lines of a review file built from the line pool (parse on its own)
MaxNoteLines == 3

\* tasks handed to classify_tasks on its own
MaxTasks == 3

(***************************************************************************)
(* str helpers.                                                            *)
(***************************************************************************)
\* str.isspace() / the regex class \s, on the symbols that occur
IsSpace(c) == c \in {" ", "\t"}

\* the regex class \d
IsDigit(c) == c \in {"0", "1", "2", "3", "4", "5", "6", "7", "8", "9"}

\* first index >= i of s that does not hold a symbol of cs (Len(s)+1 if none)
RECURSIVE SkipIn(_, _, _)
SkipIn(s, i, cs) ==
    IF i > Len(s) \/ s[i] \notin cs THEN i ELSE SkipIn(s, i + 1, cs)

\* last index <= i of s that does not hold a symbol of cs (0 if none)
RECURSIVE SkipBackIn(_, _, _)
SkipBackIn(s, i, cs) ==
    IF i < 1 \/ s[i] \notin cs THEN i ELSE SkipBackIn(s, i - 1, cs)

\* str.strip(chars): leading and trailing symbols of cs removed
StripChars(s, cs) ==
    LET a == SkipIn(s, 1, cs)
        b == SkipBackIn(s, Len(s), cs)
    IN  IF a > b THEN <<>> ELSE SubSeq(s, a, b)

\* str.strip()
Strip(s) == StripChars(s, {" ", "\t"})

\* s.startswith(p)
StartsWith(s, p) == Len(s) >= Len(p) /\ SubSeq(s, 1, Len(p)) = p

\* index of the first occurrence of symbol c in s (0 if none)
RECURSIVE IndexFrom(_, _, _)
IndexFrom(s, c, i) ==
    IF i > Len(s) THEN 0 ELSE IF s[i] = c THEN i ELSE IndexFrom(s, c, i + 1)

\* the bug "is not None for truthiness": the empty str counts as a value
Truthy_NotNone(x) == x # None

\* Python truthiness of an Optional[str]: None and "" are falsy
Truthy(x) == x # None /\ x # <<>>

(***************************************************************************)
(* dict helpers: a dict is a function from keys to values.                 *)
(***************************************************************************)
EmptyDict == <<>>

DictSet(d, k, v) == [x \in (DOMAIN d) \cup {k} |-> IF x = k THEN v ELSE d[x]]

\* d.get(k, default)
DictGet(d, k, default) == IF k \in DOMAIN d THEN d[k] ELSE default

(***************************************************************************)
(* load_env, lines 24-42.                                                  *)
(***************************************************************************)
\* lines 34-41 for one raw line: the dict after the loop body ran on it
LoadEnvLine(acc, raw) ==
    LET line == Strip(raw)
        eq == IndexFrom(line, "=", 1)
    IN  IF line = <<>> \/ StartsWith(line, <<"#">>) \/ eq = 0
        THEN acc
        ELSE LET key == Strip(SubSeq(line, 1, eq - 1))
                 value == StripChars(StripChars(
                              Strip(SubSeq(line, eq + 1, Len(line))),
                              {"\""}), {"'"})
             IN  DictSet(acc, key, value)

RECURSIVE LoadEnvLoop(_, _)
LoadEnvLoop(acc, lines) ==
    IF lines = <<>> THEN acc
    ELSE LoadEnvLoop(LoadEnvLine(acc, Head(lines)), Tail(lines))

load_env(file) ==
    IF ~file.exists THEN EmptyDict ELSE LoadEnvLoop(EmptyDict, file.lines)

(***************************************************************************)
(* get_env, lines 45-50.                                                   *)
(***************************************************************************)
\* dict.update(other): every key of other is assigned in turn
RECURSIVE DictUpdate(_, _, _)
DictUpdate(d, other, keys) ==
    IF keys = {} THEN d
    ELSE LET k == CHOOSE x \in keys : TRUE
         IN  DictUpdate(DictSet(d, k, other[k]), other, keys \ {k})

\* the bug "the file wins": the environment is loaded first
get_env_FileWins(file, environ) ==
    LET file_env == load_env(file)
    IN  DictUpdate(environ, file_env, DOMAIN file_env)

get_env(file, environ) ==
    LET file_env == load_env(file)
    IN  DictUpdate(file_env, environ, DOMAIN environ)

(***************************************************************************)
(* TASK_PATTERN, lines 53-55:                                              *)
(*   ^- \[ \]\s*(?P<body>.+?)\s*CAL\s*(?P<date>\d{4}-\d{2}-\d{2})\s*$     *)
(***************************************************************************)
CAL == "<cal>"
FUKUSHU == "<fukushu>"
NoMatch == [matched |-> FALSE, body |-> <<>>, date |-> <<>>]

\* (?P<date>\d{4}-\d{2}-\d{2}) on exactly the ten symbols of s
DatePattern(s) ==
    /\ Len(s) = 10
    /\ \A i \in {1, 2, 3, 4, 6, 7, 9, 10} : IsDigit(s[i])
    /\ s[5] = "-"
    /\ s[8] = "-"

\* where the date group starts if \s*CAL\s*(?P<date>...)\s*$ matches line
\* from index i on, else 0.  Each \s* is greedy and is followed by a symbol
\* that is no whitespace, so it takes the whole run.
TailMatch(line, i) ==
    LET m == SkipIn(line, i, {" ", "\t"})
        d == SkipIn(line, m + 1, {" ", "\t"})
    IN  IF /\ m <= Len(line)
           /\ line[m] = CAL
           /\ d + 9 <= Len(line)
           /\ DatePattern(SubSeq(line, d, d + 9))
           /\ SkipIn(line, d + 10, {" ", "\t"}) = Len(line) + 1
        THEN d ELSE 0

\* the lazy body group: the shortest body from index s on, ending at e >= s,
\* after which the rest of the pattern matches (0 if none)
RECURSIVE LazyBodyEnd(_, _, _)
LazyBodyEnd(line, s, e) ==
    IF e > Len(line) THEN 0
    ELSE IF TailMatch(line, e + 1) # 0 THEN e
    ELSE LazyBodyEnd(line, s, e + 1)

\* the greedy \s* before the body: k whitespace symbols are tried, the
\* longest run first, giving back one at a time
RECURSIVE GreedyLead(_, _)
GreedyLead(line, k) ==
    IF k < 0 THEN NoMatch
    ELSE LET s == 6 + k
             e == LazyBodyEnd(line, s, s)
         IN  IF e # 0
             THEN [matched |-> TRUE,
                   body |-> SubSeq(line, s, e),
                   date |-> LET d == TailMatch(line, e + 1)
                            IN  SubSeq(line, d, d + 9)]
             ELSE GreedyLead(line, k - 1)

\* TASK_PATTERN.match(raw): NoMatch or the groups body and date
TASK_PATTERN(raw) ==
    IF ~StartsWith(raw, <<"-", " ", "[", " ", "]">>) THEN NoMatch
    ELSE GreedyLead(raw, SkipIn(raw, 6, {" ", "\t"}) - 6)

(***************************************************************************)
(* parse_tasks_from_file, lines 58-78.                                     *)
(***************************************************************************)
\* first index >= i of s that holds whitespace (Len(s)+1 if none): \S*
RECURSIVE SkipNonSpace(_, _)
SkipNonSpace(s, i) ==
    IF i > Len(s) \/ IsSpace(s[i]) THEN i ELSE SkipNonSpace(s, i + 1)

\* re.sub(r"^FUKUSHU\S*\s*", "", body), line 74
StripReviewPrefix(body) ==
    IF ~StartsWith(body, <<FUKUSHU>>) THEN body
    ELSE LET w == SkipNonSpace(body, 2)
             n == SkipIn(body, w, {" ", "\t"})
         IN  SubSeq(body, n, Len(body))

\* the bug "only the prefix word is removed": the \S*\s* part is forgotten
ParseLine_KeepSuffix(raw) ==
    LET m == TASK_PATTERN(raw)
    IN  IF ~m.matched THEN <<>>
        ELSE LET body == Strip(m.body)
                 tmp == IF StartsWith(body, <<FUKUSHU>>) THEN Tail(body) ELSE body
             IN  <<[line |-> raw,
                    note |-> IF tmp # <<>> THEN tmp ELSE None,
                    due_date |-> m.date]>>

\* lines 64-77 for one raw line: the tasks the loop body appends (0 or 1)
ParseLine(raw) ==
    LET m == TASK_PATTERN(raw)
    IN  IF ~m.matched THEN <<>>
        ELSE LET body == Strip(m.body)
                 tmp == StripReviewPrefix(body)
             IN  <<[line |-> raw,
                    note |-> IF tmp # <<>> THEN tmp ELSE None,
                    due_date |-> m.date]>>

\* the bug "insert(0, ...) for append": the tasks come out in reverse
RECURSIVE ParseLoop_Prepend(_, _)
ParseLoop_Prepend(acc, lines) ==
    IF lines = <<>> THEN acc
    ELSE ParseLoop_Prepend(ParseLine(Head(lines)) \o acc, Tail(lines))

\* lines 62-78: the loop over the lines of the file
RECURSIVE ParseLoop(_, _)
ParseLoop(acc, lines) ==
    IF lines = <<>> THEN acc
    ELSE ParseLoop(acc \o ParseLine(Head(lines)), Tail(lines))

\* the bug "a missing file is an empty file": no FileNotFoundError
parse_tasks_from_file_NoRaise(file) ==
    IF ~file.exists THEN [raised |-> NoError, tasks |-> <<>>]
    ELSE [raised |-> NoError, tasks |-> ParseLoop(<<>>, file.lines)]

\* raised is the exception (NoError if it returned), tasks the returned list
parse_tasks_from_file(file) ==
    IF ~file.exists THEN [raised |-> "FileNotFoundError", tasks |-> <<>>]
    ELSE [raised |-> NoError, tasks |-> ParseLoop(<<>>, file.lines)]

(***************************************************************************)
(* Dates: datetime.date as <<year, month, day>>, lines 84-88.              *)
(***************************************************************************)
IsLeap(y) == y % 4 = 0 /\ (y % 100 # 0 \/ y % 400 = 0)

DaysInMonth(y, m) ==
    IF m = 2 THEN (IF IsLeap(y) THEN 29 ELSE 28)
    ELSE IF m \in {4, 6, 9, 11} THEN 30 ELSE 31

\* the bug "February always has 28 days"
AddOneDay_NoLeap(d) ==
    LET dim == IF d[2] = 2 THEN 28 ELSE DaysInMonth(d[1], d[2])
    IN  IF d[3] < dim THEN <<d[1], d[2], d[3] + 1>>
        ELSE IF d[2] < 12 THEN <<d[1], d[2] + 1, 1>>
        ELSE <<d[1] + 1, 1, 1>>

\* today + timedelta(days=1), line 85 (years stay far below date.max)
AddOneDay(d) ==
    IF d[3] < DaysInMonth(d[1], d[2]) THEN <<d[1], d[2], d[3] + 1>>
    ELSE IF d[2] < 12 THEN <<d[1], d[2] + 1, 1>>
    ELSE <<d[1] + 1, 1, 1>>

DigitChar(n) == <<"0", "1", "2", "3", "4", "5", "6", "7", "8", "9">>[n + 1]

\* date.isoformat(): "%04d-%02d-%02d", lines 87-88
isoformat(d) ==
    <<DigitChar(d[1] \div 1000), DigitChar((d[1] \div 100) % 10),
      DigitChar((d[1] \div 10) % 10), DigitChar(d[1] % 10), "-",
      DigitChar(d[2] \div 10), DigitChar(d[2] % 10), "-",
      DigitChar(d[3] \div 10), DigitChar(d[3] % 10)>>

(***************************************************************************)
(* classify_tasks, lines 81-108.  asdict(t) of a ReviewTask is the record  *)
(* of its three fields, which is how a task is held here already.          *)
(***************************************************************************)
\* the bug "if for elif": a task due today also falls through to the else
ClassifyOne_Fallthrough(result, t, today_str, tomorrow_str) ==
    LET r1 == IF t.due_date = today_str
              THEN [result EXCEPT !.today = Append(@, t)] ELSE result
    IN  IF t.due_date = tomorrow_str
        THEN [r1 EXCEPT !.tomorrow = Append(@, t)]
        ELSE [r1 EXCEPT !.others = Append(@, t)]

\* lines 93-98: the loop body for one task
ClassifyOne(result, t, today_str, tomorrow_str) ==
    IF t.due_date = today_str
    THEN [result EXCEPT !.today = Append(@, t)]
    ELSE IF t.due_date = tomorrow_str
    THEN [result EXCEPT !.tomorrow = Append(@, t)]
    ELSE [result EXCEPT !.others = Append(@, t)]

\* lines 90-98: the local dict result after the loop
RECURSIVE ClassifyLoop(_, _, _, _)
ClassifyLoop(result, ts, today_str, tomorrow_str) ==
    IF ts = <<>> THEN result
    ELSE ClassifyLoop(ClassifyOne(result, Head(ts), today_str, tomorrow_str),
                      Tail(ts), today_str, tomorrow_str)

\* lines 84-98: result as classify_tasks holds it before its return
ClassifyBuckets(ts, today) ==
    ClassifyLoop([today |-> <<>>, tomorrow |-> <<>>, others |-> <<>>],
                 ts, isoformat(today), isoformat(AddOneDay(today)))

\* lines 100-108: the returned dict; now2 is the date of the second
\* datetime.now(JST), whose time of day is left out
ClassifyReturn(result, today, now2) ==
    [today |-> result.today,
     tomorrow |-> result.tomorrow,
     meta |-> [generated_at |-> isoformat(now2),
               today |-> isoformat(today),
               tomorrow |-> isoformat(AddOneDay(today))]]

classify_tasks(ts, today, now2) ==
    ClassifyReturn(ClassifyBuckets(ts, today), today, now2)

(***************************************************************************)
(* ensure_gist, lines 111-150.  A response is RequestException (requests   *)
(* raised: timeout, connection error) or a status with a body; a body is   *)
(* NotJson or the decoded JSON object, of which only the key "id" is read. *)
(***************************************************************************)
NotJson == [json |-> FALSE, data |-> EmptyDict]

Json(data) == [json |-> TRUE, data |-> data]

RequestException == [exception |-> TRUE, status |-> 0, body |-> NotJson]

Response(status, body) == [exception |-> FALSE, status |-> status, body |-> body]

\* resp.raise_for_status(), lines 137 and 148: raises on 4xx and 5xx
RaisesForStatus(resp) == 400 <= resp.status /\ resp.status < 600

\* lines 131-136 and 142-147: the request sent
PatchRequest(token, gid, content) ==
    [method |-> "PATCH", url |-> <<"https://api.github.com/gists", gid>>,
     authorization |-> <<"token", token>>, content |-> content]

PostRequest(token, content) ==
    [method |-> "POST", url |-> <<"https://api.github.com/gists">>,
     authorization |-> <<"token", token>>, content |-> content]

\* lines 137-139 and 148-150: what the call yields once resp arrived;
\* default is gist_id on update (data.get("id", gist_id)) and None on
\* create (data["id"])
AfterResponse(resp, default) ==
    IF resp.exception THEN [raised |-> "RequestException", ret |-> None]
    ELSE IF RaisesForStatus(resp) THEN [raised |-> "HTTPError", ret |-> None]
    ELSE IF ~resp.body.json THEN [raised |-> "JSONDecodeError", ret |-> None]
    ELSE IF "id" \in DOMAIN resp.body.data
    THEN [raised |-> NoError, ret |-> resp.body.data["id"]]
    ELSE IF default = None THEN [raised |-> "KeyError", ret |-> None]
    ELSE [raised |-> NoError, ret |-> default]

\* the bug "create when the update failed": a second request after an
\* HTTP error on PATCH (resp2 is the answer to it)
ensure_gist_Fallback(token, gid, content, resp) ==
    IF Truthy(gid)
    THEN LET r == AfterResponse(resp, gid)
         IN  IF r.raised = "HTTPError"
             THEN [requests |-> <<PatchRequest(token, gid, content),
                                  PostRequest(token, content)>>,
                   raised |-> NoError, ret |-> gid]
             ELSE [requests |-> <<PatchRequest(token, gid, content)>>,
                   raised |-> r.raised, ret |-> r.ret]
    ELSE LET r == AfterResponse(resp, None)
         IN  [requests |-> <<PostRequest(token, content)>>,
              raised |-> r.raised, ret |-> r.ret]

\* the bug "the response's id is ignored on update"
ensure_gist_Supplied(token, gid, content, resp) ==
    IF Truthy(gid)
    THEN LET r == AfterResponse(resp, gid)
         IN  [requests |-> <<PatchRequest(token, gid, content)>>,
              raised |-> r.raised,
              ret |-> IF r.raised = NoError THEN gid ELSE None]
    ELSE LET r == AfterResponse(resp, None)
         IN  [requests |-> <<PostRequest(token, content)>>,
              raised |-> r.raised, ret |-> r.ret]

\* requests: what was sent; raised: the exception (NoError if it returned);
\* ret: the returned identifier
ensure_gist(token, gid, content, resp) ==
    IF Truthy(gid)
    THEN LET r == AfterResponse(resp, gid)
         IN  [requests |-> <<PatchRequest(token, gid, content)>>,
              raised |-> r.raised, ret |-> r.ret]
    ELSE LET r == AfterResponse(resp, None)
         IN  [requests |-> <<PostRequest(token, content)>>,
              raised |-> r.raised, ret |-> r.ret]

(***************************************************************************)
(* main, lines 153-176.                                                    *)
(***************************************************************************)
TOKEN_KEY == <<"GITHUB_GIST_TOKEN">>
GIST_KEY == <<"REVIEW_GIST_ID">>
VAULT_KEY == <<"VAULT_PATH">>
FILE_KEY == <<"REVIEW_FILE_PATH">>
\* the defaults of lines 162-165 (the path of line 164 without its
\* non-ASCII parts)
DefaultVault == <<"/Users/toyoda/Obsidian/MainVault">>
DefaultFile == <<"03_/_20251001.md">>

\* the bug "the token check is skipped"
TokenMissing_Never(e) == FALSE

\* lines 156-157: not github_token
TokenMissing(e) == ~Truthy(DictGet(e, TOKEN_KEY, None))

\* line 160: env.get("REVIEW_GIST_ID") or None
GistIdOf(e) ==
    LET v == DictGet(e, GIST_KEY, None) IN IF Truthy(v) THEN v ELSE None

\* line 171: json.dumps(classified, ...), kept as the value it encodes
JsonDumps(v) == [json |-> v]

\* line 154
GetEnv ==
    /\ pc = "get_env"
    /\ env' = get_env(settings, os_environ)
    /\ io' = Append(io, "settings")
    /\ pc' = "check_token"
    /\ UNCHANGED <<settings, os_environ, notes, github_token, gist_id,
                   review_file, tasks, clock, buckets, classified,
                   json_content, calls, response, new_gist_id, stdout, err>>

\* lines 156-167
CheckToken ==
    /\ pc = "check_token"
    /\ github_token' = DictGet(env, TOKEN_KEY, None)
    /\ IF TokenMissing(env)
       THEN /\ err' = "SystemExit"
            /\ pc' = "failed"
            /\ UNCHANGED <<gist_id, review_file>>
       ELSE /\ gist_id' = GistIdOf(env)
            /\ review_file' = <<DictGet(env, VAULT_KEY, DefaultVault),
                                DictGet(env, FILE_KEY, DefaultFile)>>
            /\ pc' = "parse"
            /\ UNCHANGED err
    /\ UNCHANGED <<settings, os_environ, notes, env, tasks, clock, buckets,
                   classified, json_content, calls, response, new_gist_id,
                   stdout, io>>

\* line 169
Parse ==
    /\ pc = "parse"
    /\ LET r == parse_tasks_from_file(notes)
       IN  IF r.raised # NoError
           THEN /\ err' = r.raised
                /\ pc' = "failed"
                /\ UNCHANGED tasks
           ELSE /\ tasks' = r.tasks
                /\ pc' = "classify"
                /\ UNCHANGED err
    /\ io' = Append(io, "review_file")
    /\ UNCHANGED <<settings, os_environ, notes, env, github_token, gist_id,
                   review_file, clock, buckets, classified, json_content,
                   calls, response, new_gist_id, stdout>>

\* line 170; the clock is read twice (lines 84 and 104), and the second
\* reading may fall on the next day
Classify(Clocks) ==
    /\ pc = "classify"
    /\ \E now \in Clocks : \E now2 \in {now, AddOneDay(now)} :
          /\ clock' = now
          /\ buckets' = ClassifyBuckets(tasks, now)
          /\ classified' = classify_tasks(tasks, now, now2)
    /\ pc' = "dumps"
    /\ UNCHANGED <<settings, os_environ, notes, env, github_token, gist_id,
                   review_file, tasks, json_content, calls, response,
                   new_gist_id, stdout, err, io>>

\* line 171
Dumps ==
    /\ pc = "dumps"
    /\ json_content' = JsonDumps(classified)
    /\ pc' = "ensure_gist"
    /\ UNCHANGED <<settings, os_environ, notes, env, github_token, gist_id,
                   review_file, tasks, clock, buckets, classified, calls,
                   response, new_gist_id, stdout, err, io>>

\* what the remote side may answer.  The model's boundary is the requests
\* API: the call raises or yields a response, raise_for_status() raises or
\* not, json() raises or yields the decoded object.  requests follows
\* redirects, so the status of the response is a 2xx or a 4xx/5xx.  The
\* identifier in the body is whatever the remote side put there.
Bodies == {NotJson, Json(EmptyDict), Json("id" :> <<"g1">>), Json("id" :> <<"g2">>)}

Responses ==
    {RequestException} \cup {Response(200, b) : b \in Bodies}
        \cup {Response(201, Json("id" :> <<"g2">>)),
              Response(404, Json(EmptyDict)),
              Response(500, NotJson)}

\* line 173
Publish ==
    /\ pc = "ensure_gist"
    /\ \E resp \in Responses :
          LET r == ensure_gist(github_token, gist_id, json_content, resp)
          IN  /\ calls' = calls \o r.requests
              /\ response' = resp
              /\ io' = io \o [i \in 1..Len(r.requests) |-> "http"]
              /\ IF r.raised # NoError
                 THEN /\ err' = r.raised
                      /\ pc' = "failed"
                      /\ UNCHANGED new_gist_id
                 ELSE /\ new_gist_id' = r.ret
                      /\ pc' = "print"
                      /\ UNCHANGED err
    /\ UNCHANGED <<settings, os_environ, notes, env, github_token, gist_id,
                   review_file, tasks, clock, buckets, classified,
                   json_content, stdout>>

\* line 176
PrintId ==
    /\ pc = "print"
    /\ stdout' = Append(stdout, new_gist_id)
    /\ pc' = "done"
    /\ UNCHANGED <<settings, os_environ, notes, env, github_token, gist_id,
                   review_file, tasks, clock, buckets, classified,
                   json_content, calls, response, new_gist_id, err, io>>

(***************************************************************************)
(* Inputs.                                                                 *)
(***************************************************************************)
SeqsUpTo(S, n) == UNION {[1..k -> S] : k \in 0..n}

D(y, m, d) == isoformat(<<y, m, d>>)

\* a dict of the environment: None stands for "the variable is not set"
EnvironOf(t, g) ==
    [k \in (IF t = None THEN {} ELSE {TOKEN_KEY})
             \cup (IF g = None THEN {} ELSE {GIST_KEY})
        |-> IF k = TOKEN_KEY THEN t ELSE g]

\* --- the whole run ---
MainEnvLinePool ==
    {TOKEN_KEY \o <<"=", "tok">>,
     GIST_KEY \o <<"=", "g1">>,
     GIST_KEY \o <<"=">>}

MainSettings == {NoFile} \cup {File(f) : f \in SeqsUpTo(MainEnvLinePool, MaxMainEnvLines)}

MainEnvirons ==
    {EnvironOf(t, g) : t \in {None, <<>>, <<"tok">>}, g \in {None, <<>>, <<"g2">>}}

\* the line of the spec's scenario A, a line due the next day, and a
\* ticked item (no match)
\* "- [ ] FUKUSHU(1) Linked Lists CAL 2025-06-01", where "(1)" stands for
\* the circled digit one
ScenarioALine ==
    <<"-", " ", "[", " ", "]", " ", FUKUSHU, "(1)", " ", "Linked", " ", "Lists",
      " ", CAL, " ">> \o D(2025, 6, 1)

MainNoteLinePool ==
    {ScenarioALine,
     <<"-", " ", "[", " ", "]", " ", "Graphs", " ", CAL, " ">> \o D(2025, 6, 2),
     <<"-", " ", "[", "x", "]", " ", "Done", " ", CAL, " ">> \o D(2025, 6, 1)}

MainNotes == {NoFile} \cup {File(f) : f \in SeqsUpTo(MainNoteLinePool, MaxMainNoteLines)}

MainClocks == {<<2025, 6, 1>>}

Init ==
    /\ pc = "get_env"
    /\ settings \in MainSettings
    /\ os_environ \in MainEnvirons
    /\ notes \in MainNotes
    /\ env = Unset
    /\ github_token = None
    /\ gist_id = None
    /\ review_file = Unset
    /\ tasks = Unset
    /\ clock = Unset
    /\ buckets = Unset
    /\ classified = Unset
    /\ json_content = Unset
    /\ calls = <<>>
    /\ response = Unset
    /\ new_gist_id = None
    /\ stdout = <<>>
    /\ err = NoError
    /\ io = <<>>

Next ==
    \/ GetEnv
    \/ CheckToken
    \/ Parse
    \/ Classify(MainClocks)
    \/ Dumps
    \/ Publish
    \/ PrintId

Spec == Init /\ [][Next]_vars

\* --- get_env on its own ---
EnvSymbols == {" ", "#", "=", "\"", "'", "REVIEW_GIST_ID", "v"}

EnvLinePool ==
    {GIST_KEY \o <<"=", "g1">>,
     <<" ">> \o GIST_KEY \o <<" ", "=", " ", "\"", "g3", "\"", " ">>,
     <<"#">> \o GIST_KEY \o <<"=", "g4">>,
     TOKEN_KEY \o <<"=", "'", "tok", "'">>,
     <<"export", " ">> \o TOKEN_KEY \o <<"=", "tok">>,
     GIST_KEY}

EnvSettings ==
    {NoFile} \cup {File(f) : f \in SeqsUpTo(EnvLinePool, MaxEnvLines)}
        \cup {File(<<l>>) : l \in SeqsUpTo(EnvSymbols, MaxEnvLineLen)}

EnvEnvirons ==
    {EnvironOf(t, g) : t \in {None, <<"tok">>}, g \in {None, <<>>, <<"g2">>}}

InitEnv ==
    /\ pc = "get_env"
    /\ settings \in EnvSettings
    /\ os_environ \in EnvEnvirons
    /\ notes = NoFile
    /\ env = Unset
    /\ github_token = None
    /\ gist_id = None
    /\ review_file = Unset
    /\ tasks = Unset
    /\ clock = Unset
    /\ buckets = Unset
    /\ classified = Unset
    /\ json_content = Unset
    /\ calls = <<>>
    /\ response = Unset
    /\ new_gist_id = None
    /\ stdout = <<>>
    /\ err = NoError
    /\ io = <<>>

NextEnv == GetEnv

SpecEnv == InitEnv /\ [][NextEnv]_vars

\* --- parse_tasks_from_file on its own ---
LineHeads ==
    {<<"-", " ", "[", " ", "]">>,
     <<"-", " ", "[", " ", "]", " ">>,
     <<"-", " ", "[", "x", "]", " ">>,
     <<" ", "-", " ", "[", " ", "]", " ">>}

BodySymbols == {" ", "a", FUKUSHU, CAL}

LineMarkers == {<<CAL>>, <<" ", CAL, " ">>, <<"\t", CAL>>, <<>>}

LineDates == {D(2025, 6, 1), <<"2", "0", "2", "5", "-", "6", "-", "0", "1">>}

LineEnds == {<<>>, <<" ">>, <<" ", "a">>}

GeneratedLines ==
    {h \o b \o m \o d \o e :
        h \in LineHeads, b \in SeqsUpTo(BodySymbols, MaxBodyLen),
        m \in LineMarkers, d \in LineDates, e \in LineEnds}

NoteLinePool ==
    MainNoteLinePool \cup
    {<<"-", " ", "[", " ", "]", " ", FUKUSHU, "(2)", " ", CAL, " ">> \o D(2025, 6, 3),
     <<"#", " ", "Review">>}

ParseNotes ==
    {NoFile} \cup {File(f) : f \in SeqsUpTo(NoteLinePool, MaxNoteLines)}
        \cup {File(<<l>>) : l \in GeneratedLines}

InitParse ==
    /\ pc = "parse"
    /\ settings = NoFile
    /\ os_environ = EnvironOf(<<"tok">>, None)
    /\ notes \in ParseNotes
    /\ env = EnvironOf(<<"tok">>, None)
    /\ github_token = <<"tok">>
    /\ gist_id = None
    /\ review_file = <<DefaultVault, DefaultFile>>
    /\ tasks = Unset
    /\ clock = Unset
    /\ buckets = Unset
    /\ classified = Unset
    /\ json_content = Unset
    /\ calls = <<>>
    /\ response = Unset
    /\ new_gist_id = None
    /\ stdout = <<>>
    /\ err = NoError
    /\ io = <<"settings">>

NextParse == Parse

SpecParse == InitParse /\ [][NextParse]_vars

\* --- classify_tasks on its own ---
Task(name, due) == [line |-> <<"-", " ", "[", " ", "]", " ", name, " ", CAL, " ">> \o due,
                    note |-> <<name>>, due_date |-> due]

\* the last one matches \d{4}-\d{2}-\d{2} and is no date of the calendar
TaskPool ==
    {Task("A", D(2024, 2, 29)), Task("B", D(2024, 3, 1)),
     Task("C", D(2101, 1, 1)),
     Task("E", <<"2", "0", "2", "3", "-", "0", "2", "-", "2", "9">>)}

ClockYears == {2000, 2023, 2024, 2100}

ClassifyClocks ==
    {<<y, m, d>> : y \in ClockYears, m \in 1..12, d \in {1, 28, 29, 30, 31}}
        \cap {c \in (ClockYears \X (1..12) \X (1..31)) : c[3] <= DaysInMonth(c[1], c[2])}

InitClassify ==
    /\ pc = "classify"
    /\ settings = NoFile
    /\ os_environ = EnvironOf(<<"tok">>, None)
    /\ notes = NoFile
    /\ env = EnvironOf(<<"tok">>, None)
    /\ github_token = <<"tok">>
    /\ gist_id = None
    /\ review_file = <<DefaultVault, DefaultFile>>
    /\ tasks \in SeqsUpTo(TaskPool, MaxTasks)
    /\ clock = Unset
    /\ buckets = Unset
    /\ classified = Unset
    /\ json_content = Unset
    /\ calls = <<>>
    /\ response = Unset
    /\ new_gist_id = None
    /\ stdout = <<>>
    /\ err = NoError
    /\ io = <<"settings", "review_file">>

NextClassify == Classify(ClassifyClocks)

SpecClassify == InitClassify /\ [][NextClassify]_vars

\* --- ensure_gist on its own ---
InitGist ==
    /\ pc = "ensure_gist"
    /\ settings = NoFile
    /\ os_environ = EmptyDict
    /\ notes = NoFile
    /\ env = EmptyDict
    /\ github_token \in {<<"tok">>, <<"tok2">>}
    /\ gist_id \in {None, <<>>, <<"g1">>, <<"g3">>}
    /\ review_file = Unset
    /\ tasks = Unset
    /\ clock = Unset
    /\ buckets = Unset
    /\ classified = Unset
    /\ json_content \in {JsonDumps(classify_tasks(ts, <<2025, 6, 1>>, <<2025, 6, 1>>)) :
                            ts \in SeqsUpTo({Task("A", D(2025, 6, 1))}, 2)}
    /\ calls = <<>>
    /\ response = Unset
    /\ new_gist_id = None
    /\ stdout = <<>>
    /\ err = NoError
    /\ io = <<>>

NextGist == Publish

SpecGist == InitGist /\ [][NextGist]_vars

(***************************************************************************)
(* Properties.                                                             *)
(***************************************************************************)

\* --- C9, under SpecEnv ---
\* C9: once get_env returned, the resolved config holds exactly the keys of
\* the settings file and of the environment; a key of the environment has
\* the environment's value (also when the file defines it), any other key
\* the file's value; with no settings file the config is the environment.
C9_EnvironmentWins ==
    pc = "check_token" =>
        LET file_env == load_env(settings)
        IN  /\ DOMAIN env = (DOMAIN file_env) \cup (DOMAIN os_environ)
            /\ \A k \in DOMAIN env :
                  env[k] = IF k \in DOMAIN os_environ THEN os_environ[k]
                           ELSE file_env[k]
            /\ ~settings.exists => env = os_environ

\* a key defined by both sources, with different values, was resolved next
\* to a key only the file defines
C9_Witness ==
    /\ pc = "check_token"
    /\ settings.exists
    /\ \E k \in (DOMAIN load_env(settings)) \cap (DOMAIN os_environ) :
          load_env(settings)[k] # os_environ[k]
    /\ \E k \in DOMAIN load_env(settings) : k \notin DOMAIN os_environ

\* --- C7 and C8, under SpecParse ---
\* the language of TASK_PATTERN, stated on the line as a whole: the
\* checklist head, at least one symbol, then a marker followed by nothing
\* but a date between optional whitespace
MatchesChecklistDate(l) ==
    /\ StartsWith(l, <<"-", " ", "[", " ", "]">>)
    /\ \E c \in 7..Len(l) :
          /\ l[c] = CAL
          /\ \E d \in (c + 1)..Len(l) :
                /\ \A i \in (c + 1)..(d - 1) : IsSpace(l[i])
                /\ d + 9 <= Len(l)
                /\ DatePattern(SubSeq(l, d, d + 9))
                /\ \A i \in (d + 10)..Len(l) : IsSpace(l[i])

LinesOf(ts) == [i \in 1..Len(ts) |-> ts[i].line]

RestAfterPrefix(body, rest) ==
    \E i \in 1..Len(body) : \E j \in i..Len(body) :
        /\ \A k \in 2..i : ~IsSpace(body[k])
        /\ i = Len(body) \/ IsSpace(body[i + 1])
        /\ \A k \in (i + 1)..j : IsSpace(body[k])
        /\ j = Len(body) \/ ~IsSpace(body[j + 1])
        /\ rest = SubSeq(body, j + 1, Len(body))

NoteOfBody(body, note) ==
    IF StartsWith(body, <<FUKUSHU>>)
    THEN \E n \in 1..(Len(body) + 1) :
            /\ RestAfterPrefix(body, SubSeq(body, n, Len(body)))
            /\ note = IF n > Len(body) THEN None ELSE SubSeq(body, n, Len(body))
    ELSE note = IF body = <<>> THEN None ELSE body

\* C8: every matching line yields a task (also when its note is absent),
\* and the note of each task is derived from the trimmed body: without the
\* prefix word it is the trimmed body, with it it is what follows the
\* word, its non-whitespace suffix and the whitespace after that; a note
\* that would be empty is None.
C8_NoteDerivation ==
    pc = "classify" =>
        /\ Len(tasks) = Len(SelectSeq(notes.lines, MatchesChecklistDate))
        /\ \A i \in 1..Len(tasks) :
              /\ tasks[i].note # <<>>
              /\ NoteOfBody(Strip(TASK_PATTERN(tasks[i].line).body), tasks[i].note)

\* the line of scenario A gave the note "Linked Lists", and a task whose
\* body is only the prefix word and its suffix was emitted with no note
C8_Witness ==
    /\ pc = "classify"
    /\ \E i \in 1..Len(tasks) :
          /\ tasks[i].line = ScenarioALine
          /\ tasks[i].note = <<"Linked", " ", "Lists">>
    /\ \E i \in 1..Len(tasks) :
          /\ StartsWith(Strip(TASK_PATTERN(tasks[i].line).body), <<FUKUSHU>>)
          /\ tasks[i].note = None

\* --- C4 and C6, under SpecClassify ---
\* C4: after classify_tasks ran, the bucket today holds the tasks whose
\* due_date is the today string, tomorrow those whose due_date is the
\* tomorrow string, others all the rest, each in input order; the three
\* lengths add up to the number of tasks, so no task is lost or doubled.
C4_TotalPartition ==
    pc = "dumps" =>
        LET today_str == classified.meta.today
            tomorrow_str == classified.meta.tomorrow
        IN  /\ today_str = isoformat(clock)
            /\ buckets.today =
                  SelectSeq(tasks, LAMBDA t : t.due_date = today_str)
            /\ buckets.tomorrow =
                  SelectSeq(tasks, LAMBDA t : t.due_date = tomorrow_str)
            /\ buckets.others =
                  SelectSeq(tasks, LAMBDA t : t.due_date \notin {today_str, tomorrow_str})
            /\ Len(buckets.today) + Len(buckets.tomorrow) + Len(buckets.others)
                  = Len(tasks)

\* three tasks were classified, one into each bucket
C4_Witness ==
    /\ pc = "dumps"
    /\ Len(tasks) = 3
    /\ Len(buckets.today) = 1
    /\ Len(buckets.tomorrow) = 1
    /\ Len(buckets.others) = 1

DigitValue(c) == CHOOSE n \in 0..9 : DigitChar(n) = c

\* the date a string of the form YYYY-MM-DD names
DateOfIso(str) ==
    <<1000 * DigitValue(str[1]) + 100 * DigitValue(str[2])
          + 10 * DigitValue(str[3]) + DigitValue(str[4]),
      10 * DigitValue(str[6]) + DigitValue(str[7]),
      10 * DigitValue(str[9]) + DigitValue(str[10])>>

\* the number of the day d in the proleptic Gregorian calendar
DayNumber(d) ==
    LET y == d[1] - 1
        before == <<0, 31, 59, 90, 120, 151, 181, 212, 243, 273, 304, 334>>
    IN  365 * y + (y \div 4) - (y \div 100) + (y \div 400)
          + before[d[2]] + (IF d[2] > 2 /\ IsLeap(d[1]) THEN 1 ELSE 0) + d[3]

\* C6: the payload has exactly the keys today, tomorrow and meta; a task
\* under today is due on meta.today, a task under tomorrow on
\* meta.tomorrow; meta.tomorrow is the calendar day after meta.today; a
\* task due on any other date is under neither key.
C6_PayloadShape ==
    pc = "dumps" =>
        /\ DOMAIN classified = {"today", "tomorrow", "meta"}
        /\ \A i \in 1..Len(classified.today) :
              classified.today[i].due_date = classified.meta.today
        /\ \A i \in 1..Len(classified.tomorrow) :
              classified.tomorrow[i].due_date = classified.meta.tomorrow
        /\ DayNumber(DateOfIso(classified.meta.tomorrow))
              = DayNumber(DateOfIso(classified.meta.today)) + 1
        /\ \A i \in 1..Len(tasks) :
              tasks[i].due_date \notin {classified.meta.today, classified.meta.tomorrow}
                 => /\ \A j \in 1..Len(classified.today) : classified.today[j] # tasks[i]
                    /\ \A j \in 1..Len(classified.tomorrow) : classified.tomorrow[j] # tasks[i]

\* on 2024-02-28 a task due the next day (a leap day) is under tomorrow and
\* a task due two days later, 2024-03-01, is under neither key
C6_Witness ==
    /\ pc = "dumps"
    /\ clock = <<2024, 2, 28>>
    /\ \E i \in 1..Len(tasks) : tasks[i].due_date = D(2024, 3, 1)
    /\ Len(classified.tomorrow) = 1
    /\ classified.tomorrow[1].due_date = D(2024, 2, 29)
    /\ classified.today = <<>>

\* --- C3, under SpecGist ---
SuccessStatus(resp) == ~resp.exception /\ 200 <= resp.status /\ resp.status <= 299

HasId(resp) == resp.body.json /\ "id" \in DOMAIN resp.body.data

\* the one request ensure_gist sent: PATCH to the supplied identifier if
\* one was supplied, POST to the collection if not
C3_OneCall ==
    /\ Len(calls) = 1
    /\ Truthy(gist_id) =>
          /\ calls[1].method = "PATCH"
          /\ calls[1].url = <<"https://api.github.com/gists", gist_id>>
    /\ ~Truthy(gist_id) =>
          /\ calls[1].method = "POST"
          /\ calls[1].url = <<"https://api.github.com/gists">>

C1_PublishAfterAll ==
    /\ calls # <<>> =>
          /\ Truthy(github_token)
          /\ github_token = DictGet(env, TOKEN_KEY, None)
          /\ notes.exists
          /\ LinesOf(tasks) = SelectSeq(notes.lines, MatchesChecklistDate)
          /\ classified.today =
                SelectSeq(tasks, LAMBDA t : t.due_date = classified.meta.today)
          /\ classified.tomorrow =
                SelectSeq(tasks, LAMBDA t : t.due_date = classified.meta.tomorrow)
          /\ json_content = JsonDumps(classified)
          /\ \A i \in 1..Len(calls) : calls[i].content = json_content
    /\ ~notes.exists => calls = <<>>
    /\ err \in {"SystemExit", "FileNotFoundError"} => calls = <<>>
    /\ pc \in {"get_env", "check_token", "parse", "classify", "dumps"} => calls = <<>>

\* a request was sent whose content lists a task due today and one due
\* tomorrow, both lines of the review file
C1_Witness ==
    /\ calls # <<>>
    /\ Len(notes.lines) = 2
    /\ Len(calls[1].content.json.today) = 1
    /\ Len(calls[1].content.json.tomorrow) = 1

TokenAbsent ==
    /\ TOKEN_KEY \notin DOMAIN load_env(settings)
    /\ TOKEN_KEY \notin DOMAIN os_environ

\* C2: with GITHUB_GIST_TOKEN in neither the settings file nor the
\* environment, the run ends at the token check with SystemExit: the
\* settings file is the only thing it touched, the review file was not
\* read and no request was sent.
C2_NoTokenStopsEarly ==
    TokenAbsent /\ pc \notin {"get_env", "check_token"} =>
        /\ pc = "failed"
        /\ err = "SystemExit"
        /\ io = <<"settings">>
        /\ calls = <<>>
        /\ tasks = Unset

\* scenario E: no settings file and no token in the environment, and the
\* run has ended with the configuration error
C2_Witness ==
    /\ ~settings.exists
    /\ TOKEN_KEY \notin DOMAIN os_environ
    /\ pc = "failed"
    /\ err = "SystemExit"
    /\ notes.exists

C10_EmptyIdCreates ==
    /\ pc \notin {"get_env", "check_token"} /\ pc # "failed"
          /\ GIST_KEY \in DOMAIN env /\ env[GIST_KEY] = <<>>
          => gist_id = None
    /\ \A i \in 1..Len(calls) :
          /\ calls[i].method = "PATCH" => calls[i].url[2] # <<>>
          /\ GIST_KEY \in DOMAIN env /\ env[GIST_KEY] = <<>>
                => /\ calls[i].method = "POST"
                   /\ calls[i].url = <<"https://api.github.com/gists">>

\* an empty REVIEW_GIST_ID of the environment overrode the identifier of
\* the settings file, and the run created a gist
C10_Witness ==
    /\ calls # <<>>
    /\ GIST_KEY \in DOMAIN load_env(settings)
    /\ load_env(settings)[GIST_KEY] = <<"g1">>
    /\ GIST_KEY \in DOMAIN os_environ
    /\ os_environ[GIST_KEY] = <<>>
    /\ calls[1].method = "POST"

====
